---- MODULE Spec2Model ----
(***************************************************************************)
(* Model of torchmodels/main_old.py: the Session class that drives the     *)
(* epoch/batch loop, gradient accumulation, mixed precision, metrics       *)
(* reporting and checkpointing.                                            *)
(*                                                                         *)
(* An example of a data set is represented by the loss the model yields    *)
(* for it; a batch is a sequence of examples.  Losses, means and gradients *)
(* are exact rationals [n, d] in lowest terms; [n |-> 0, d |-> 0] is NaN.  *)
(* The accumulated gradient is represented by the loss whose gradient it   *)
(* is (backward is linear in the loss).                                    *)
(***************************************************************************)
EXTENDS Integers, Sequences, FiniteSets, TLC

\* ---- bounds of the model -------------------------------------------------
MaxBatch == 3       \* batch_size, grad_accum_step, test_batch_size in 1..MaxBatch
MaxTrainLen == 3    \* examples in the training data set
MaxValLen == 3      \* examples in the validation data set
MaxEpochs == 2      \* config.epochs in 0..MaxEpochs
MaxLoss == 2        \* per-example loss in 0..MaxLoss (SpecBatch)
MaxAccumBatch == 4  \* batch_size in 1..MaxAccumBatch (SpecBatch)

\* ---- arithmetic ----------------------------------------------------------
Min(a, b) == IF a < b THEN a ELSE b

Abs(a) == IF a < 0 THEN -a ELSE a

\* the greatest common divisor of two naturals, b > 0
GCD(a, b) ==
    IF a = 0 THEN b
    ELSE CHOOSE g \in 1..Min(a, b) :
            /\ a % g = 0 /\ b % g = 0
            /\ \A h \in (g + 1)..Min(a, b) : ~(a % h = 0 /\ b % h = 0)

NaN == [n |-> 0, d |-> 0]

\* the value of an expression, evaluated once
Value(S) == CHOOSE v \in S : TRUE

Norm(n, d) ==
    IF d = 0 THEN NaN
    ELSE Value({[n |-> s * (n \div g), d |-> s * (d \div g)] :
                    g \in {GCD(Abs(n), Abs(d))}, s \in {IF d < 0 THEN -1 ELSE 1}})

Rat(k) == [n |-> k, d |-> 1]

IsNaN(r) == r.d = 0

RatAdd(x, y) ==
    Value({IF IsNaN(a) \/ IsNaN(b) THEN NaN
           ELSE Norm(a.n * b.d + b.n * a.d, a.d * b.d) : a \in {x}, b \in {y}})

RatSub(x, y) ==
    Value({IF IsNaN(a) \/ IsNaN(b) THEN NaN
           ELSE Norm(a.n * b.d - b.n * a.d, a.d * b.d) : a \in {x}, b \in {y}})

RatMulInt(x, k) == Value({IF IsNaN(a) THEN NaN ELSE Norm(a.n * k, a.d) : a \in {x}})

RatDivInt(x, k) ==
    Value({IF IsNaN(a) \/ k = 0 THEN NaN ELSE Norm(a.n, a.d * k) : a \in {x}})

SumSeq(s) ==
    LET sum[i \in 0..Len(s)] == IF i = 0 THEN 0 ELSE sum[i - 1] + s[i]
    IN  sum[Len(s)]

Last(s) == s[Len(s)]

IsPrefix(s, t) == Len(s) <= Len(t) /\ SubSeq(t, 1, Len(s)) = s

\* ---- torch collaborators -------------------------------------------------
\* len(DataLoader(dataset, batch_size, drop_last))
NumBatches(len, bs, drop_last) ==
    IF drop_last THEN len \div bs ELSE (len + bs - 1) \div bs

\* the i-th batch (0-based) a DataLoader yields, in data set order
BatchAt(data, bs, i) == SubSeq(data, i * bs + 1, Min((i + 1) * bs, Len(data)))

\* Python's s[start:end] for 0 <= start <= end
PySlice(s, start, end) == SubSeq(s, Min(start, Len(s)) + 1, Min(end, Len(s)))

\* nn.CrossEntropyLoss: the mean of the per-example losses (NaN on no example)
LossFunction(y) == IF Len(y) = 0 THEN NaN ELSE Norm(SumSeq(y), Len(y))

\* ---- Session.__init__ ----------------------------------------------------
\* self._session_type = self._config.session_type or "training"
SessionType(cfg_type) == IF cfg_type = "None" THEN "training" ELSE cfg_type

BatchFun(cfg) == IF cfg.batch_size = cfg.grad_accum_step THEN "single" ELSE "accum"

GradientAccumulationSteps(cfg) ==
    IF cfg.batch_size = cfg.grad_accum_step THEN 0
    ELSE cfg.batch_size \div cfg.grad_accum_step

\* ---- forward / backward --------------------------------------------------
DefaultForward(y, loss_quotient) == RatDivInt(LossFunction(y), loss_quotient)

AmpForward(y, loss_quotient) == DefaultForward(y, loss_quotient)

Forward(cfg, y, loss_quotient) ==
    IF cfg.mixed_precision THEN AmpForward(y, loss_quotient)
    ELSE DefaultForward(y, loss_quotient)

\* the event a backward pass leaves in the batch log
Backward(cfg) == IF cfg.mixed_precision THEN "scaled_backward" ELSE "backward"

\* ---- MetricsContainer ----------------------------------------------------
ZeroMetric == [count |-> 0, loss |-> Rat(0)]

ZeroAccuracy == [correct |-> 0, total |-> 0]

ZeroMetrics ==
    [training |-> ZeroMetric, validation |-> ZeroMetric, lr |-> 0,
     training_accuracy |-> ZeroAccuracy, validation_accuracy |-> ZeroAccuracy]

\* an example is predicted correctly when its loss is small
Correct(e) == e < 2

\* MultiClassAccuracy: the correct predictions over the running count
UpdateAccuracy(a, y, count) ==
    [correct |-> a.correct + Cardinality({i \in DOMAIN y : Correct(y[i])}),
     total   |-> a.total + count]

AccuracyValue(a) == Norm(a.correct, a.total)

\* running weighted mean: mean + (value - mean) * count / running_count
UpdateMetric(m, loss, count) ==
    LET c == m.count + count
    IN  [count |-> c,
         loss  |-> RatAdd(m.loss, RatDivInt(RatMulInt(RatSub(loss, m.loss), count), c))]

UpdateTraining(ms, loss, y, count) ==
    [ms EXCEPT !.training = UpdateMetric(ms.training, loss, count),
               !.training_accuracy = UpdateAccuracy(ms.training_accuracy, y, count)]

UpdateValidation(ms, loss, y, count) ==
    [ms EXCEPT !.validation = UpdateMetric(ms.validation, loss, count),
               !.validation_accuracy = UpdateAccuracy(ms.validation_accuracy, y, count)]

\* ---- state ---------------------------------------------------------------
VARIABLES
    config,            \* self._config (after load_and_merge_configuration)
    dataset,           \* [train, val]: the examples on disk
    disk,              \* latest checkpoint of the session directory, NoCheckpoint if none
    is_resume,
    session_type,      \* self._session_type, "UNSET" while the attribute does not exist
    batch_fun,         \* self._batch_fun: "single" | "accum"
    gradient_accumulation_steps,
    starting_epoch,
    num_training_batches,    \* -1 is None
    num_validation_batches,  \* -1 is None
    reporter,          \* self._reporter is set (truthy)
    pc,                \* position in start()
    error,             \* the exception that ended start(), "" if none
    epoch,             \* loop variable of _start_training
    batch,             \* index of the current batch in the current pass
    step,              \* loop variable of _single_batch_accum
    cur,               \* the batch being executed
    training,          \* self._model.training
    grad,              \* accumulated gradient since the last zero_grad
    params,            \* number of parameter updates applied to the model
    lr_steps,          \* number of learning-rate schedule steps applied to the optimizer
    metrics,
    weights_saved,     \* calls of save_weights
    epoch_log,         \* steps of the current epoch, in order
    batch_log,         \* events of the current batch, in order
    epochs_run,        \* epoch indices begun, in order
    saved,             \* epoch arguments of the save_checkpoint calls, in order
    reports,           \* epoch arguments of the reporter calls, in order
    passes,            \* completed passes <<epoch, mode>>
    nbatches,          \* batches handed to the batch function, per mode
    steps_per_epoch,   \* model_config["steps_per_epoch"]: -2 not set, -1 is None
    val_loss,          \* local of _start_training
    val_acc,           \* local of _start_training
    report_args,       \* arguments of the reporter calls, in order
    save_args,         \* arguments of the save_checkpoint calls, in order
    lr_log             \* updates of the lr metric, in order

cfgVars == <<config, dataset, is_resume, session_type, batch_fun, gradient_accumulation_steps>>

histVars == <<epoch_log, batch_log, epochs_run, saved, reports, passes, nbatches>>

vars == <<config, dataset, disk, is_resume, session_type, batch_fun,
          gradient_accumulation_steps, starting_epoch, num_training_batches,
          num_validation_batches, reporter, pc, error, epoch, batch, step, cur,
          training, grad, params, lr_steps, metrics, weights_saved,
          epoch_log, batch_log, epochs_run, saved, reports, passes, nbatches,
          steps_per_epoch, val_loss, val_acc, report_args, save_args, lr_log>>

auxVars == <<steps_per_epoch, val_loss, val_acc, report_args, save_args, lr_log>>

NoCheckpoint == [epoch |-> -1, lr_steps |-> 0, params |-> 0]

\* lr_scheduler: a schedule is configured; onecycle: it is the "onecycle" one
Configs(maxB) ==
    {c \in [batch_size : 1..maxB, grad_accum_step : 1..maxB,
             test_batch_size : 1..MaxBatch, mixed_precision : BOOLEAN,
             lr_scheduler : BOOLEAN, onecycle : BOOLEAN, epochs : 0..MaxEpochs] :
        c.onecycle => c.lr_scheduler}

\* a data set of len examples, each of loss 1
UnitData(len) == [i \in 1..len |-> 1]

\* the state Session.__init__ leaves for a configuration, a data set and a
\* session directory
Constructed(cfg, cfg_session_id, cfg_type, data, cp) ==
    /\ config = cfg
    /\ dataset = data
    /\ disk = cp
    /\ is_resume = cfg_session_id
    /\ session_type = IF cfg_session_id THEN "UNSET" ELSE SessionType(cfg_type)
    /\ batch_fun = BatchFun(cfg)
    /\ gradient_accumulation_steps = GradientAccumulationSteps(cfg)
    /\ starting_epoch = 0
    /\ num_training_batches = -1
    /\ num_validation_batches = -1
    /\ reporter = FALSE
    /\ pc = "initialize_model"
    /\ error = ""
    /\ epoch = 0
    /\ batch = 0
    /\ step = 0
    /\ cur = <<>>
    /\ training = TRUE
    /\ grad = Rat(0)
    /\ params = 0
    /\ lr_steps = 0
    /\ metrics = ZeroMetrics
    /\ weights_saved = 0
    /\ epoch_log = <<>>
    /\ batch_log = <<>>
    /\ epochs_run = <<>>
    /\ saved = <<>>
    /\ reports = <<>>
    /\ passes = {}
    /\ nbatches = [training |-> 0, validation |-> 0]
    /\ steps_per_epoch = -2
    /\ val_loss = Rat(0)
    /\ val_acc = Rat(0)
    /\ report_args = <<>>
    /\ save_args = <<>>
    /\ lr_log = <<>>

\* the checkpoints an earlier run of the session can have left: none, or the
\* one saved at the end of epoch k (after k + 1 schedule steps, if scheduled)
Checkpoints(cfg) ==
    {NoCheckpoint} \cup
    {[epoch |-> k, lr_steps |-> IF cfg.lr_scheduler THEN k + 1 ELSE 0, params |-> 1] :
        k \in 0..(cfg.epochs - 1)}

Init ==
    \E cfg \in Configs(MaxBatch), cfg_session_id \in BOOLEAN,
       cfg_type \in {"None", "training", "validation", "other"},
       nt \in 0..MaxTrainLen, nv \in 0..MaxValLen :
        \E cp \in (IF cfg_session_id THEN Checkpoints(cfg) ELSE {NoCheckpoint}) :
            Constructed(cfg, cfg_session_id, cfg_type,
                        [train |-> UnitData(nt), val |-> UnitData(nv)], cp)

\* ---- CheckpointManager ---------------------------------------------------
\* load_latest fails when the session directory holds no checkpoint
LoadLatestFails(cp) == cp = NoCheckpoint

\* the record save_checkpoint(epoch, score) writes as the latest
CheckpointRecord(e) == [epoch |-> e, lr_steps |-> lr_steps, params |-> params]

\* ---- Session.start -------------------------------------------------------
Fail(e) == pc' = "failed" /\ error' = e

\* the first value of `for epoch in range(self._config.epochs)`
FirstEpoch == 0

InitializeModel ==
    /\ pc = "initialize_model"
    /\ steps_per_epoch' = (IF config.onecycle THEN num_training_batches ELSE steps_per_epoch)
    /\ IF is_resume
       THEN IF LoadLatestFails(disk)
            THEN /\ Fail("CheckpointNotFoundError")
                 /\ UNCHANGED <<starting_epoch, lr_steps, params>>
            ELSE /\ starting_epoch' = disk.epoch + 1
                 /\ lr_steps' = disk.lr_steps
                 /\ params' = disk.params
                 /\ pc' = "load_data"
                 /\ UNCHANGED error
       ELSE /\ pc' = "load_data"
            /\ UNCHANGED <<starting_epoch, lr_steps, params, error>>
    /\ UNCHANGED cfgVars
    /\ UNCHANGED <<val_loss, val_acc, report_args, save_args, lr_log>>
    /\ UNCHANGED histVars
    /\ UNCHANGED <<disk, num_training_batches, num_validation_batches, reporter, epoch,
                   batch, step, cur, training, grad, metrics, weights_saved>>

LoadData ==
    /\ pc = "load_data"
    /\ IF session_type = "UNSET"
       THEN /\ Fail("AttributeError")
            /\ UNCHANGED <<num_training_batches, num_validation_batches>>
       ELSE /\ num_training_batches' =
                  IF session_type = "training"
                  THEN NumBatches(Len(dataset.train), config.batch_size, TRUE)
                  ELSE num_training_batches
            /\ num_validation_batches' =
                  NumBatches(Len(dataset.val), config.test_batch_size, FALSE)
            /\ pc' = "build_metrics"
            /\ UNCHANGED error
    /\ UNCHANGED cfgVars
    /\ UNCHANGED auxVars
    /\ UNCHANGED histVars
    /\ UNCHANGED <<disk, starting_epoch, reporter, epoch, batch, step, cur, training,
                   grad, params, lr_steps, metrics, weights_saved>>

\* lines 129-142: summary, reporter, metrics, saved configuration, begin_session
BuildMetrics ==
    /\ pc = "build_metrics"
    /\ \E r \in BOOLEAN : reporter' = r
    /\ metrics' = ZeroMetrics
    /\ pc' = "dispatch"
    /\ UNCHANGED cfgVars
    /\ UNCHANGED auxVars
    /\ UNCHANGED histVars
    /\ UNCHANGED <<disk, starting_epoch, num_training_batches, num_validation_batches,
                   error, epoch, batch, step, cur, training, grad, params, lr_steps,
                   weights_saved>>

\* Dispatch without the check of the session type: every type but
\* "validation" is trained
Dispatch_NoCheck ==
    /\ pc = "dispatch"
    /\ IF session_type = "validation"
       THEN pc' = "start_validation" /\ UNCHANGED <<epoch, error>>
       ELSE pc' = "epoch_loop" /\ epoch' = FirstEpoch /\ UNCHANGED error
    /\ UNCHANGED cfgVars
    /\ UNCHANGED auxVars
    /\ UNCHANGED histVars
    /\ UNCHANGED <<disk, starting_epoch, num_training_batches, num_validation_batches,
                   reporter, batch, step, cur, training, grad, params, lr_steps, metrics,
                   weights_saved>>

Dispatch ==
    /\ pc = "dispatch"
    /\ IF session_type = "training"
       THEN pc' = "epoch_loop" /\ epoch' = FirstEpoch /\ UNCHANGED error
       ELSE IF session_type = "validation"
            THEN pc' = "start_validation" /\ UNCHANGED <<epoch, error>>
            ELSE Fail("ValueError") /\ UNCHANGED epoch
    /\ UNCHANGED cfgVars
    /\ UNCHANGED auxVars
    /\ UNCHANGED histVars
    /\ UNCHANGED <<disk, starting_epoch, num_training_batches, num_validation_batches,
                   reporter, batch, step, cur, training, grad, params, lr_steps, metrics,
                   weights_saved>>

\* _start_validation: `pass`
StartValidation ==
    /\ pc = "start_validation"
    /\ pc' = "end_session"
    /\ UNCHANGED cfgVars
    /\ UNCHANGED auxVars
    /\ UNCHANGED histVars
    /\ UNCHANGED <<disk, starting_epoch, num_training_batches, num_validation_batches,
                   reporter, error, epoch, batch, step, cur, training, grad, params,
                   lr_steps, metrics, weights_saved>>

EndSession ==
    /\ pc = "end_session"
    /\ pc' = "done"
    /\ UNCHANGED cfgVars
    /\ UNCHANGED auxVars
    /\ UNCHANGED histVars
    /\ UNCHANGED <<disk, starting_epoch, num_training_batches, num_validation_batches,
                   reporter, error, epoch, batch, step, cur, training, grad, params,
                   lr_steps, metrics, weights_saved>>

\* ---- Session._start_training ---------------------------------------------
\* lines 319-325 and 279: loop head, lr metric, begin_epoch, model.train()
BeginEpoch ==
    /\ pc = "epoch_loop"
    /\ epoch < config.epochs
    /\ metrics' = [metrics EXCEPT !.lr = lr_steps]
    /\ lr_log' = Append(lr_log, lr_steps)
    /\ epoch_log' = <<"lr">>
    /\ epochs_run' = Append(epochs_run, epoch)
    /\ training' = TRUE
    /\ batch' = 0
    /\ pc' = "train_loop"
    /\ UNCHANGED cfgVars
    /\ UNCHANGED <<steps_per_epoch, val_loss, val_acc, report_args, save_args>>
    /\ UNCHANGED <<disk, starting_epoch, num_training_batches, num_validation_batches,
                   reporter, error, epoch, step, cur, grad, params, lr_steps,
                   weights_saved, batch_log, saved, reports, passes, nbatches>>

\* SaveWeights that leaves the loop one epoch early
SaveWeights_Early ==
    /\ pc = "epoch_loop"
    /\ epoch >= config.epochs - 1
    /\ weights_saved' = weights_saved + 1
    /\ pc' = "end_session"
    /\ UNCHANGED cfgVars
    /\ UNCHANGED auxVars
    /\ UNCHANGED histVars
    /\ UNCHANGED <<disk, starting_epoch, num_training_batches, num_validation_batches,
                   reporter, error, epoch, batch, step, cur, training, grad, params,
                   lr_steps, metrics>>

\* line 344, after the loop
SaveWeights ==
    /\ pc = "epoch_loop"
    /\ epoch >= config.epochs
    /\ weights_saved' = weights_saved + 1
    /\ pc' = "end_session"
    /\ UNCHANGED cfgVars
    /\ UNCHANGED auxVars
    /\ UNCHANGED histVars
    /\ UNCHANGED <<disk, starting_epoch, num_training_batches, num_validation_batches,
                   reporter, error, epoch, batch, step, cur, training, grad, params,
                   lr_steps, metrics>>

\* ---- Session._train_epoch ------------------------------------------------
\* lines 281-287: the next batch, zero_grad
TrainNext ==
    /\ pc = "train_loop"
    /\ batch < num_training_batches
    /\ cur' = BatchAt(dataset.train, config.batch_size, batch)
    /\ grad' = Rat(0)
    /\ batch_log' = <<"zero_grad">>
    /\ step' = 0
    /\ nbatches' = [nbatches EXCEPT !.training = @ + 1]
    /\ pc' = "batch_fun"
    /\ UNCHANGED cfgVars
    /\ UNCHANGED auxVars
    /\ UNCHANGED <<disk, starting_epoch, num_training_batches, num_validation_batches,
                   reporter, error, epoch, batch, training, params, lr_steps, metrics,
                   weights_saved, epoch_log, epochs_run, saved, reports, passes>>

\* TrainEnd that resets the metrics between the two passes
TrainEnd_ResetsMetrics ==
    /\ pc = "train_loop"
    /\ batch >= num_training_batches
    /\ passes' = passes \cup {<<epoch, "training">>}
    /\ metrics' = ZeroMetrics
    /\ epoch_log' = epoch_log \o <<"train", "reset">>
    /\ training' = FALSE
    /\ batch' = 0
    /\ pc' = "val_loop"
    /\ UNCHANGED cfgVars
    /\ UNCHANGED auxVars
    /\ UNCHANGED <<disk, starting_epoch, num_training_batches, num_validation_batches,
                   reporter, error, epoch, step, cur, grad, params, lr_steps,
                   weights_saved, batch_log, epochs_run, saved, reports, nbatches>>

\* the training data is exhausted; lines 329 and 303-304: model.eval()
TrainEnd ==
    /\ pc = "train_loop"
    /\ batch >= num_training_batches
    /\ passes' = passes \cup {<<epoch, "training">>}
    /\ epoch_log' = Append(epoch_log, "train")
    /\ training' = FALSE
    /\ batch' = 0
    /\ pc' = "val_loop"
    /\ UNCHANGED cfgVars
    /\ UNCHANGED auxVars
    /\ UNCHANGED <<disk, starting_epoch, num_training_batches, num_validation_batches,
                   reporter, error, epoch, step, cur, grad, params, lr_steps, metrics,
                   weights_saved, batch_log, epochs_run, saved, reports, nbatches>>

\* ---- the batch functions -------------------------------------------------
\* Observe that propagates the loss whatever the model's mode
Observe_AlwaysBackward(loss, y, count) ==
    /\ grad' = RatAdd(grad, loss)
    /\ IF training
       THEN /\ metrics' = UpdateTraining(metrics, loss, y, count)
            /\ batch_log' = batch_log \o <<"forward", Backward(config), "update_training">>
       ELSE /\ metrics' = UpdateValidation(metrics, loss, y, count)
            /\ batch_log' = batch_log \o <<"forward", Backward(config), "update_validation">>

\* Observe that reports every observation as a training observation
Observe_AlwaysTraining(loss, y, count) ==
    /\ grad' = (IF training THEN RatAdd(grad, loss) ELSE grad)
    /\ metrics' = UpdateTraining(metrics, loss, y, count)
    /\ batch_log' = batch_log \o (IF training
                                  THEN <<"forward", Backward(config), "update_training">>
                                  ELSE <<"forward", "update_training">>)

\* lines 243-250 and 265-273: backward if training, then the metrics update
Observe(loss, y, count) ==
    IF training
    THEN /\ grad' = RatAdd(grad, loss)
         /\ metrics' = UpdateTraining(metrics, loss, y, count)
         /\ batch_log' = batch_log \o <<"forward", Backward(config), "update_training">>
    ELSE /\ grad' = grad
         /\ metrics' = UpdateValidation(metrics, loss, y, count)
         /\ batch_log' = batch_log \o <<"forward", "update_validation">>

SingleBatch ==
    /\ pc = "batch_fun"
    /\ batch_fun = "single"
    /\ Observe(Forward(config, cur, 1), cur, Len(cur))
    /\ pc' = "after_batch"
    /\ UNCHANGED cfgVars
    /\ UNCHANGED auxVars
    /\ UNCHANGED <<disk, starting_epoch, num_training_batches, num_validation_batches,
                   reporter, error, epoch, batch, step, cur, training, params, lr_steps,
                   weights_saved, epoch_log, epochs_run, saved, reports, passes, nbatches>>

\* the micro-batch of one step of the loop
MicroBatch(y, s) ==
    LET start == s * config.grad_accum_step
        end   == start + config.grad_accum_step
    IN  PySlice(y, start, end)

\* one iteration of the loop of _single_batch_accum
SingleBatchAccum ==
    /\ pc = "batch_fun"
    /\ batch_fun = "accum"
    /\ step < gradient_accumulation_steps
    /\ LET y_true == MicroBatch(cur, step)
       IN  Observe(Forward(config, y_true, Len(y_true)), y_true, Len(y_true))
    /\ step' = step + 1
    /\ UNCHANGED cfgVars
    /\ UNCHANGED auxVars
    /\ UNCHANGED <<disk, starting_epoch, num_training_batches, num_validation_batches,
                   reporter, pc, error, epoch, batch, cur, training, params, lr_steps,
                   weights_saved, epoch_log, epochs_run, saved, reports, passes, nbatches>>

\* the loop of _single_batch_accum is exhausted
SingleBatchAccumReturn ==
    /\ pc = "batch_fun"
    /\ batch_fun = "accum"
    /\ step >= gradient_accumulation_steps
    /\ pc' = "after_batch"
    /\ UNCHANGED cfgVars
    /\ UNCHANGED auxVars
    /\ UNCHANGED histVars
    /\ UNCHANGED <<disk, starting_epoch, num_training_batches, num_validation_batches,
                   reporter, error, epoch, batch, step, cur, training, grad, params,
                   lr_steps, metrics, weights_saved>>

\* GradScaler.step: the optimizer step is skipped on a non-finite gradient
ScalerStep(p, g) == IF IsNaN(g) THEN p ELSE p + 1

\* UpdateWeights that steps the optimizer directly whatever the precision
UpdateWeights_DirectStep ==
    /\ pc = "after_batch"
    /\ training
    /\ params' = params + 1
    /\ batch_log' = Append(batch_log, "step")
    /\ pc' = "train_loop"
    /\ batch' = batch + 1
    /\ UNCHANGED cfgVars
    /\ UNCHANGED auxVars
    /\ UNCHANGED <<disk, starting_epoch, num_training_batches, num_validation_batches,
                   reporter, error, epoch, step, cur, training, grad, lr_steps, metrics,
                   weights_saved, epoch_log, epochs_run, saved, reports, passes, nbatches>>

\* lines 291-295
UpdateWeights ==
    /\ pc = "after_batch"
    /\ training
    /\ IF config.mixed_precision
       THEN /\ params' = ScalerStep(params, grad)
            /\ batch_log' = Append(batch_log, "scaler_step")
            /\ pc' = "scaler_update"
            /\ UNCHANGED batch
       ELSE /\ params' = params + 1
            /\ batch_log' = Append(batch_log, "step")
            /\ pc' = "train_loop"
            /\ batch' = batch + 1
    /\ UNCHANGED cfgVars
    /\ UNCHANGED auxVars
    /\ UNCHANGED <<disk, starting_epoch, num_training_batches, num_validation_batches,
                   reporter, error, epoch, step, cur, training, grad, lr_steps, metrics,
                   weights_saved, epoch_log, epochs_run, saved, reports, passes, nbatches>>

\* lines 293 and 297
ScalerUpdate ==
    /\ pc = "scaler_update"
    /\ batch_log' = Append(batch_log, "scaler_update")
    /\ pc' = "train_loop"
    /\ batch' = batch + 1
    /\ UNCHANGED cfgVars
    /\ UNCHANGED auxVars
    /\ UNCHANGED <<disk, starting_epoch, num_training_batches, num_validation_batches,
                   reporter, error, epoch, step, cur, training, grad, params, lr_steps,
                   metrics, weights_saved, epoch_log, epochs_run, saved, reports, passes,
                   nbatches>>

\* ---- Session._validate_epoch ---------------------------------------------
\* lines 306-308: the next validation batch
ValidateNext ==
    /\ pc = "val_loop"
    /\ batch < num_validation_batches
    /\ cur' = BatchAt(dataset.val, config.test_batch_size, batch)
    /\ batch_log' = <<>>
    /\ step' = 0
    /\ nbatches' = [nbatches EXCEPT !.validation = @ + 1]
    /\ pc' = "batch_fun"
    /\ UNCHANGED cfgVars
    /\ UNCHANGED auxVars
    /\ UNCHANGED <<disk, starting_epoch, num_training_batches, num_validation_batches,
                   reporter, error, epoch, batch, training, grad, params, lr_steps,
                   metrics, weights_saved, epoch_log, epochs_run, saved, reports, passes>>

\* line 311
ValidateProgress ==
    /\ pc = "after_batch"
    /\ ~training
    /\ batch' = batch + 1
    /\ pc' = "val_loop"
    /\ UNCHANGED cfgVars
    /\ UNCHANGED auxVars
    /\ UNCHANGED histVars
    /\ UNCHANGED <<disk, starting_epoch, num_training_batches, num_validation_batches,
                   reporter, error, epoch, step, cur, training, grad, params, lr_steps,
                   metrics, weights_saved>>

\* ---- the end of an epoch -------------------------------------------------
\* EndEpoch that reads the training metrics for val_loss and val_acc
EndEpoch_ReadsTraining ==
    /\ pc = "val_loop"
    /\ batch >= num_validation_batches
    /\ passes' = passes \cup {<<epoch, "validation">>}
    /\ epoch_log' = epoch_log \o <<"validate", "end_epoch">>
    /\ val_loss' = metrics.training.loss
    /\ val_acc' = AccuracyValue(metrics.training_accuracy)
    /\ pc' = "lr_step"
    /\ UNCHANGED cfgVars
    /\ UNCHANGED <<steps_per_epoch, report_args, save_args, lr_log>>
    /\ UNCHANGED <<disk, starting_epoch, num_training_batches, num_validation_batches,
                   reporter, error, epoch, batch, step, cur, training, grad, params,
                   lr_steps, metrics, weights_saved, batch_log, epochs_run, saved,
                   reports, nbatches>>

\* the validation data is exhausted; lines 333-335: end_epoch
EndEpoch ==
    /\ pc = "val_loop"
    /\ batch >= num_validation_batches
    /\ passes' = passes \cup {<<epoch, "validation">>}
    /\ epoch_log' = epoch_log \o <<"validate", "end_epoch">>
    /\ val_loss' = metrics.validation.loss
    /\ val_acc' = AccuracyValue(metrics.validation_accuracy)
    /\ pc' = "lr_step"
    /\ UNCHANGED cfgVars
    /\ UNCHANGED <<steps_per_epoch, report_args, save_args, lr_log>>
    /\ UNCHANGED <<disk, starting_epoch, num_training_batches, num_validation_batches,
                   reporter, error, epoch, batch, step, cur, training, grad, params,
                   lr_steps, metrics, weights_saved, batch_log, epochs_run, saved,
                   reports, nbatches>>

\* LrSchedulerStep that steps a schedule whether or not one is configured
LrSchedulerStep_Always ==
    /\ pc = "lr_step"
    /\ lr_steps' = lr_steps + 1
    /\ epoch_log' = Append(epoch_log, "lr_step")
    /\ pc' = "report"
    /\ UNCHANGED cfgVars
    /\ UNCHANGED auxVars
    /\ UNCHANGED <<disk, starting_epoch, num_training_batches, num_validation_batches,
                   reporter, error, epoch, batch, step, cur, training, grad, params,
                   metrics, weights_saved, batch_log, epochs_run, saved, reports, passes,
                   nbatches>>

\* lines 336-337
LrSchedulerStep ==
    /\ pc = "lr_step"
    /\ IF config.lr_scheduler
       THEN lr_steps' = lr_steps + 1 /\ epoch_log' = Append(epoch_log, "lr_step")
       ELSE UNCHANGED <<lr_steps, epoch_log>>
    /\ pc' = "report"
    /\ UNCHANGED cfgVars
    /\ UNCHANGED auxVars
    /\ UNCHANGED <<disk, starting_epoch, num_training_batches, num_validation_batches,
                   reporter, error, epoch, batch, step, cur, training, grad, params,
                   metrics, weights_saved, batch_log, epochs_run, saved, reports, passes,
                   nbatches>>

\* ReportOrCheckpoint that saves the checkpoint under the next epoch's index
ReportOrCheckpoint_NextEpoch ==
    /\ pc = "report"
    /\ IF reporter
       THEN /\ reports' = Append(reports, epoch)
            /\ report_args' = Append(report_args,
                    [mean_loss |-> val_loss, mean_accuracy |-> val_acc, epoch |-> epoch])
            /\ epoch_log' = Append(epoch_log, "report")
            /\ UNCHANGED <<saved, save_args, disk>>
       ELSE /\ saved' = Append(saved, epoch + 1)
            /\ save_args' = Append(save_args, [epoch |-> epoch + 1, score |-> val_acc])
            /\ disk' = CheckpointRecord(epoch + 1)
            /\ epoch_log' = Append(epoch_log, "checkpoint")
            /\ UNCHANGED <<reports, report_args>>
    /\ pc' = "reset"
    /\ UNCHANGED cfgVars
    /\ UNCHANGED <<steps_per_epoch, val_loss, val_acc, lr_log>>
    /\ UNCHANGED <<starting_epoch, num_training_batches, num_validation_batches,
                   reporter, error, epoch, batch, step, cur, training, grad, params,
                   lr_steps, metrics, weights_saved, batch_log, epochs_run, passes,
                   nbatches>>

\* ReportOrCheckpoint that saves a checkpoint also when it reports
ReportOrCheckpoint_AlsoSaves ==
    /\ pc = "report"
    /\ IF reporter
       THEN /\ reports' = Append(reports, epoch)
            /\ report_args' = Append(report_args,
                    [mean_loss |-> val_loss, mean_accuracy |-> val_acc, epoch |-> epoch])
            /\ epoch_log' = Append(epoch_log, "report")
       ELSE /\ epoch_log' = Append(epoch_log, "checkpoint")
            /\ UNCHANGED <<reports, report_args>>
    /\ saved' = Append(saved, epoch)
    /\ save_args' = Append(save_args, [epoch |-> epoch, score |-> val_acc])
    /\ disk' = CheckpointRecord(epoch)
    /\ pc' = "reset"
    /\ UNCHANGED cfgVars
    /\ UNCHANGED <<steps_per_epoch, val_loss, val_acc, lr_log>>
    /\ UNCHANGED <<starting_epoch, num_training_batches, num_validation_batches,
                   reporter, error, epoch, batch, step, cur, training, grad, params,
                   lr_steps, metrics, weights_saved, batch_log, epochs_run, passes,
                   nbatches>>

\* lines 338-341
ReportOrCheckpoint ==
    /\ pc = "report"
    /\ IF reporter
       THEN /\ reports' = Append(reports, epoch)
            /\ report_args' = Append(report_args,
                    [mean_loss |-> val_loss, mean_accuracy |-> val_acc, epoch |-> epoch])
            /\ epoch_log' = Append(epoch_log, "report")
            /\ UNCHANGED <<saved, save_args, disk>>
       ELSE /\ saved' = Append(saved, epoch)
            /\ save_args' = Append(save_args, [epoch |-> epoch, score |-> val_acc])
            /\ disk' = CheckpointRecord(epoch)
            /\ epoch_log' = Append(epoch_log, "checkpoint")
            /\ UNCHANGED <<reports, report_args>>
    /\ pc' = "reset"
    /\ UNCHANGED cfgVars
    /\ UNCHANGED <<steps_per_epoch, val_loss, val_acc, lr_log>>
    /\ UNCHANGED <<starting_epoch, num_training_batches, num_validation_batches,
                   reporter, error, epoch, batch, step, cur, training, grad, params,
                   lr_steps, metrics, weights_saved, batch_log, epochs_run, passes,
                   nbatches>>

\* line 342, and the loop's next value
ResetAll ==
    /\ pc = "reset"
    /\ metrics' = ZeroMetrics
    /\ epoch_log' = Append(epoch_log, "reset")
    /\ epoch' = epoch + 1
    /\ pc' = "epoch_loop"
    /\ UNCHANGED cfgVars
    /\ UNCHANGED auxVars
    /\ UNCHANGED <<disk, starting_epoch, num_training_batches, num_validation_batches,
                   reporter, error, batch, step, cur, training, grad, params, lr_steps,
                   weights_saved, batch_log, epochs_run, saved, reports, passes, nbatches>>

Next ==
    \/ InitializeModel
    \/ LoadData
    \/ BuildMetrics
    \/ Dispatch
    \/ StartValidation
    \/ EndSession
    \/ BeginEpoch
    \/ SaveWeights
    \/ TrainNext
    \/ TrainEnd
    \/ SingleBatch
    \/ SingleBatchAccum
    \/ SingleBatchAccumReturn
    \/ UpdateWeights
    \/ ScalerUpdate
    \/ ValidateNext
    \/ ValidateProgress
    \/ EndEpoch
    \/ LrSchedulerStep
    \/ ReportOrCheckpoint
    \/ ResetAll

Spec == Init /\ [][Next]_vars

\* ---- one batch with arbitrary per-example losses --------------------------
\* a fresh session of one epoch over exactly one training batch whose examples
\* have any losses in 0..MaxLoss
InitBatch ==
    \E cfg \in {c \in Configs(MaxAccumBatch) :
                    c.epochs = 1 /\ c.test_batch_size = 1 /\ ~c.lr_scheduler},
       cfg_type \in {"None", "training", "validation", "other"},
       nv \in 0..1 :
        \E train \in [1..cfg.batch_size -> 0..MaxLoss] :
            Constructed(cfg, FALSE, cfg_type,
                        [train |-> train, val |-> UnitData(nv)], NoCheckpoint)

SpecBatch == InitBatch /\ [][Next]_vars

\* ---- properties ----------------------------------------------------------
\* the sequence a, a + 1, ..., b - 1
EpochRange(a, b) == [i \in 1..(b - a) |-> a + i - 1]

Count(log, e) == Cardinality({i \in DOMAIN log : log[i] = e})

Ended == pc \in {"done", "failed"}

\* C1: a session resumed from the checkpoint of epoch k executes exactly the
\* epochs k + 1, ..., epochs - 1, in order (starting_epoch is k + 1 after the
\* restore).
C1_ResumeRunsRemainingEpochs ==
    (is_resume /\ Ended /\ ~LoadLatestFails(disk))
        => /\ starting_epoch = disk.epoch + 1
           /\ epochs_run = EpochRange(starting_epoch, config.epochs)

\* the steps of one epoch of the session, in order
EpochSteps ==
    <<"lr", "train", "validate", "end_epoch">>
        \o (IF config.lr_scheduler THEN <<"lr_step">> ELSE <<>>)
        \o <<IF reporter THEN "report" ELSE "checkpoint", "reset">>

InEpoch ==
    pc \in {"train_loop", "batch_fun", "after_batch", "scaler_update", "val_loop",
            "lr_step", "report", "reset"}

\* C2: in every epoch of a training session the steps lr, training pass,
\* validation pass, end_epoch, schedule step (if configured),
\* report-or-checkpoint, reset occur in this order, each once, and an epoch
\* begins only after the previous epoch's steps are complete.
C2_EpochStepsInOrder ==
    session_type = "training" =>
        /\ IsPrefix(epoch_log, EpochSteps)
        /\ InEpoch => epoch_log # <<>> /\ epochs_run = EpochRange(0, epoch + 1)
        /\ (pc = "epoch_loop" /\ epoch > 0) =>
                epoch_log = EpochSteps /\ epochs_run = EpochRange(0, epoch)
        /\ pc = "train_loop" => epoch_log = <<"lr">>
        /\ pc = "val_loop" => epoch_log = <<"lr", "train">>

C2_Witness ==
    /\ pc = "epoch_loop"
    /\ epoch = 2
    /\ config.lr_scheduler
    /\ epoch_log = EpochSteps
    /\ nbatches.training > 0
    /\ nbatches.validation > 0

Backwards == {"backward", "scaled_backward"}

Updates == {"step", "scaler_step"}

\* the events that end a batch of the training pass
UpdateEvents ==
    IF config.mixed_precision THEN <<"scaler_step", "scaler_update">> ELSE <<"step">>

\* C3: in a training batch the gradients are zeroed once, before the first
\* micro-batch; every backward precedes the update; one update ends the batch
\* (scaler step then scaler update under mixed precision, else a direct
\* step); the next batch begins only after it.
C3_OneUpdatePerBatch ==
    LET n == Len(batch_log)
        k == Len(UpdateEvents)
        InBatch == training /\ pc \in {"batch_fun", "after_batch", "scaler_update"}
        BatchDone == training /\ pc = "train_loop" /\ batch > 0
    IN  (InBatch \/ BatchDone) =>
            /\ n >= 1 /\ batch_log[1] = "zero_grad"
            /\ Count(batch_log, "zero_grad") = 1
            /\ \A i, j \in 1..n :
                    (batch_log[i] \in Backwards /\ batch_log[j] \in Updates) => i < j
            /\ \A i \in 1..n :
                    batch_log[i] \in Backwards => batch_log[i] = Backward(config)
            /\ Count(batch_log, "forward") = Count(batch_log, Backward(config))
            /\ pc = "batch_fun" =>
                    \A i \in 1..n : batch_log[i] \notin Updates \cup {"scaler_update"}
            /\ pc = "after_batch" =>
                    \A i \in 1..n : batch_log[i] \notin Updates \cup {"scaler_update"}
            /\ pc = "scaler_update" =>
                    /\ batch_log[n] = "scaler_step"
                    /\ Count(batch_log, "scaler_step") = 1
                    /\ Count(batch_log, "step") + Count(batch_log, "scaler_update") = 0
            /\ BatchDone =>
                    /\ n > k
                    /\ SubSeq(batch_log, n - k + 1, n) = UpdateEvents
                    /\ \A i \in 1..(n - k) :
                            batch_log[i] \notin Updates \cup {"scaler_update"}
                    /\ params = nbatches.training

C3_Witness ==
    /\ training
    /\ pc = "train_loop"
    /\ batch = 1
    /\ batch_fun = "accum"
    /\ config.mixed_precision
    /\ Count(batch_log, "scaled_backward") >= 2
    /\ batch_log[Len(batch_log)] = "scaler_update"

\* C4: every constructed session has a batch size that is an exact multiple
\* of the accumulation step size.
C4_AccumulationRatioIntegral == config.batch_size % config.grad_accum_step = 0

\* C5: after the last micro-batch of a training batch split by the
\* accumulating strategy (batch size a multiple of the step size), the loss
\* whose gradient has been accumulated is the mean loss of the whole batch.
C5_AccumulatedLossIsBatchMean ==
    ( /\ training /\ pc = "after_batch" /\ batch_fun = "accum"
      /\ config.batch_size % config.grad_accum_step = 0 )
        => grad = LossFunction(cur)

\* C6: after a training batch (batch size a multiple of the step size) the
\* loss aggregate is the one the simple strategy's observation of the whole
\* batch gives, whatever the accumulation strategy.
C6_AggregateIndependentOfStrategy ==
    ( /\ training /\ pc = "after_batch" /\ nbatches.training = 1
      /\ config.batch_size % config.grad_accum_step = 0 )
        => metrics.training = UpdateMetric(ZeroMetric, Forward(config, cur, 1), Len(cur))

\* C7: a session whose type is neither "training" nor "validation" ends
\* start() with the unknown-session-type error at dispatch, and no batch is
\* executed and no parameter updated before it.
C7_UnknownTypeFailsBeforeCompute ==
    session_type \notin {"training", "validation", "UNSET"} =>
        /\ pc \in {"initialize_model", "load_data", "build_metrics", "dispatch", "failed"}
        /\ pc = "failed" => error = "ValueError"
        /\ nbatches = [training |-> 0, validation |-> 0]
        /\ params = 0
        /\ epochs_run = <<>>

C7_Witness ==
    /\ session_type = "other"
    /\ pc = "failed"
    /\ error = "ValueError"
    /\ Len(dataset.val) > 0
    /\ num_validation_batches > 0

\* C8: start() of a resumed session whose checkpoint exists does not fail: it
\* has its session type and goes on to the epoch loop.
C8_ResumedSessionRuns ==
    (is_resume /\ ~LoadLatestFails(disk)) =>
        /\ pc # "failed"
        /\ pc \notin {"initialize_model", "load_data"} => session_type # "UNSET"

\* C9: a session of type "validation" that has ended has executed every
\* validation batch once, in eval mode, and no training batch or update.
C9_ValidationSessionRunsOnePass ==
    (session_type = "validation" /\ pc = "done") =>
        /\ nbatches.validation = num_validation_batches
        /\ nbatches.training = 0
        /\ params = 0
        /\ ~training

\* C10: without a reporter, save_checkpoint is called once per epoch, at its
\* end, with the epoch's index; the latest checkpoint always is that of an
\* epoch whose training and validation passes are complete, and during epoch
\* e >= 1 it is the checkpoint of epoch e - 1 until epoch e's is saved.
C10_CheckpointOfCompleteEpoch ==
    (session_type = "training" /\ ~reporter) =>
        /\ saved = EpochRange(0, Len(saved))
        /\ \A i \in DOMAIN saved :
                <<saved[i], "training">> \in passes /\ <<saved[i], "validation">> \in passes
        /\ saved # <<>> => disk.epoch = Last(saved)
        /\ Len(saved) = (IF pc = "reset" THEN epoch + 1 ELSE epoch)
        /\ pc \in {"end_session", "done"} => Len(saved) = config.epochs

C10_Witness ==
    /\ ~reporter
    /\ training
    /\ pc = "batch_fun"
    /\ epoch = 1
    /\ saved = <<0>>
    /\ disk.epoch = 0

InTrainingPass ==
    training /\ pc \in {"train_loop", "batch_fun", "after_batch", "scaler_update"}

InValidationPass == ~training /\ pc \in {"val_loop", "batch_fun", "after_batch"}

\* batch_log holds the events of a batch of the validation pass
ValidationBatchLog ==
    ~training /\ (pc \in {"batch_fun", "after_batch"} \/ (pc = "val_loop" /\ batch > 0))

\* batch_log holds the events of a batch of the training pass
TrainingBatchLog ==
    training /\ (pc \in {"batch_fun", "after_batch", "scaler_update"}
                    \/ (pc = "train_loop" /\ batch > 0))

\* C11: a validation batch has no backward, no zero_grad and no optimizer or
\* scaler step, and no step of a validation pass changes the parameters, the
\* accumulated gradients or the optimizer's learning-rate state.
C11_ValidationLeavesModelUnchanged ==
    /\ [](ValidationBatchLog =>
            \A i \in DOMAIN batch_log :
                batch_log[i] \notin Backwards \cup Updates \cup {"zero_grad", "scaler_update"})
    /\ [][(InValidationPass /\ InValidationPass') =>
            (params' = params /\ grad' = grad /\ lr_steps' = lr_steps)]_vars

C11_Witness ==
    /\ ~training
    /\ pc = "val_loop"
    /\ batch >= 2
    /\ batch_fun = "accum"
    /\ config.mixed_precision
    /\ params >= 1
    /\ Count(batch_log, "forward") >= 1

\* C12: every observation of a training batch goes through update_training
\* and leaves the validation metrics alone; every observation of a validation
\* batch goes through update_validation and leaves the training metrics alone.
C12_ModeIsolation ==
    /\ [](TrainingBatchLog =>
            /\ Count(batch_log, "update_validation") = 0
            /\ Count(batch_log, "update_training") = Count(batch_log, "forward"))
    /\ [](ValidationBatchLog =>
            /\ Count(batch_log, "update_training") = 0
            /\ Count(batch_log, "update_validation") = Count(batch_log, "forward"))
    /\ [][InTrainingPass =>
            /\ metrics'.validation = metrics.validation
            /\ metrics'.validation_accuracy = metrics.validation_accuracy]_vars
    /\ [][InValidationPass =>
            /\ metrics'.training = metrics.training
            /\ metrics'.training_accuracy = metrics.training_accuracy]_vars

C12_Witness ==
    /\ ~training
    /\ pc = "after_batch"
    /\ batch_fun = "accum"
    /\ metrics.training.count > 0
    /\ metrics.validation.count > 0
    /\ Count(batch_log, "update_validation") >= 2

\* C13: every micro-batch the accumulating batch function takes from a batch
\* (of the training or of the validation data, the batch size a multiple of
\* the step size) ends within the batch and is not empty.
C13_MicroBatchWithinBatch ==
    ( /\ pc = "batch_fun" /\ batch_fun = "accum" /\ step < gradient_accumulation_steps
      /\ config.batch_size % config.grad_accum_step = 0 )
        => /\ (step + 1) * config.grad_accum_step <= Len(cur)
           /\ Len(MicroBatch(cur, step)) > 0

\* C18: after each batch of a pass the running count of the pass's metrics is
\* the number of examples iterated so far in that pass (the batch size a
\* multiple of the step size): every example is observed exactly once.
C18_EveryExampleObservedOnce ==
    (pc = "after_batch" /\ config.batch_size % config.grad_accum_step = 0) =>
        IF training
        THEN /\ metrics.training.count = (batch + 1) * config.batch_size
             /\ metrics.training_accuracy.total = metrics.training.count
        ELSE /\ metrics.validation.count =
                    Min((batch + 1) * config.test_batch_size, Len(dataset.val))
             /\ metrics.validation_accuracy.total = metrics.validation.count

\* the epochs whose report-or-checkpoint step is done
EpochsEnded == IF pc = "reset" THEN epoch + 1 ELSE epoch

\* C14: each epoch ends with exactly one outcome: with a reporter, one call
\* reporter(validation mean loss, validation mean accuracy, epoch) and no
\* checkpoint; without, one call save_checkpoint(epoch, validation accuracy)
\* and no report.  The values are the finished epoch's, read before the reset.
C14_ReportOrCheckpoint ==
    session_type = "training" =>
        /\ IF reporter
           THEN /\ saved = <<>> /\ save_args = <<>>
                /\ reports = EpochRange(0, EpochsEnded)
                /\ Len(report_args) = EpochsEnded
           ELSE /\ reports = <<>> /\ report_args = <<>>
                /\ saved = EpochRange(0, EpochsEnded)
                /\ Len(save_args) = EpochsEnded
        /\ pc = "reset" =>
            /\ IF reporter
               THEN Last(report_args) =
                        [mean_loss     |-> metrics.validation.loss,
                         mean_accuracy |-> AccuracyValue(metrics.validation_accuracy),
                         epoch         |-> epoch]
               ELSE Last(save_args) =
                        [epoch |-> epoch,
                         score |-> AccuracyValue(metrics.validation_accuracy)]
            /\ batch_fun = "single" =>
                    metrics.validation_accuracy.total = Len(dataset.val)

C14_Witness ==
    /\ pc = "reset"
    /\ reporter
    /\ epoch = 1
    /\ Len(report_args) = 2
    /\ report_args[2].mean_accuracy = Rat(1)
    /\ metrics.validation.count > 0

\* C15: a session resumed from the checkpoint of epoch k, with epochs left to
\* run, records as the lr metric of its first executed epoch the learning
\* rate that epoch k's schedule step produced (k + 1 schedule steps, when a
\* schedule is configured).
C15_ResumedLearningRate ==
    (is_resume /\ ~LoadLatestFails(disk) /\ Ended /\ starting_epoch < config.epochs) =>
        /\ lr_log # <<>>
        /\ Head(lr_log) = (IF config.lr_scheduler THEN starting_epoch ELSE 0)

AfterPasses == pc \in {"lr_step", "report", "reset"}

\* C16: reset_all is called once per epoch, as the epoch's last step, after
\* end_epoch and report-or-checkpoint; no step of a training or validation
\* pass lowers a running count, and the counts read at the end of the epoch
\* are those of the epoch's own observations.
C16_ResetOncePerEpoch ==
    /\ [](session_type = "training" =>
            /\ Count(epoch_log, "reset") <= 1
            /\ Count(epoch_log, "reset") = 1 =>
                    /\ Last(epoch_log) = "reset"
                    /\ Count(epoch_log, "end_epoch") = 1
                    /\ Count(epoch_log, "report") + Count(epoch_log, "checkpoint") = 1
                    /\ pc \in {"epoch_loop", "end_session", "done"}
                    /\ metrics = ZeroMetrics
            /\ (pc = "epoch_loop" /\ epoch > 0) => Count(epoch_log, "reset") = 1
            /\ (AfterPasses /\ batch_fun = "single") =>
                    /\ metrics.training.count = num_training_batches * config.batch_size
                    /\ metrics.validation.count = Len(dataset.val))
    /\ [][(InTrainingPass \/ InValidationPass) =>
            /\ metrics'.training.count >= metrics.training.count
            /\ metrics'.validation.count >= metrics.validation.count]_vars

C16_Witness ==
    /\ pc = "epoch_loop"
    /\ epoch = 2
    /\ Count(epoch_log, "reset") = 1
    /\ nbatches.training >= 2
    /\ nbatches.validation >= 2
    /\ metrics = ZeroMetrics

\* the steps of start() in the order of a lexicographic rank: the stage of
\* start(), the epochs left, the phase of the epoch, the batches left in the
\* pass, the steps left in the batch
Rank ==
    LET loop == <<2, config.epochs - epoch>>
        gas  == IF batch_fun = "accum" THEN gradient_accumulation_steps - step ELSE 0
        left == IF training THEN num_training_batches - batch
                ELSE num_validation_batches - batch
        pass == IF training THEN 4 ELSE 3
    IN  CASE pc = "initialize_model" -> <<3, 0, 4, 0, 0>>
          [] pc = "load_data"        -> <<3, 0, 3, 0, 0>>
          [] pc = "build_metrics"    -> <<3, 0, 2, 0, 0>>
          [] pc = "dispatch"         -> <<3, 0, 1, 0, 0>>
          [] pc = "epoch_loop"       -> loop \o <<5, 0, 0>>
          [] pc = "train_loop"       -> loop \o <<4, left, gradient_accumulation_steps + 3>>
          [] pc = "val_loop"         -> loop \o <<3, left, gradient_accumulation_steps + 3>>
          [] pc = "batch_fun"        -> loop \o <<pass, left, gas + 2>>
          [] pc = "after_batch"      -> loop \o <<pass, left, 1>>
          [] pc = "scaler_update"    -> loop \o <<pass, left, 0>>
          [] pc = "lr_step"          -> loop \o <<2, 0, 0>>
          [] pc = "report"           -> loop \o <<1, 0, 0>>
          [] pc = "reset"            -> loop \o <<0, 0, 0>>
          [] pc = "start_validation" -> <<1, 0, 1, 0, 0>>
          [] pc = "end_session"      -> <<1, 0, 0, 0, 0>>
          [] OTHER                   -> <<0, 0, 0, 0, 0>>

LexLess(r, t) ==
    \E i \in 1..Len(t) : r[i] < t[i] /\ \A j \in 1..(i - 1) : r[j] = t[j]

\* C17: a fresh training session runs the epochs 0, ..., epochs - 1, then
\* saves the final weights once, after the last epoch's report-or-checkpoint,
\* then ends the session.  It terminates: it never fails, has a next step
\* until start() is done, and every step lowers a rank of natural numbers.
C17_TrainingTerminates ==
    session_type = "training" =>
        /\ weights_saved <= 1
        /\ weights_saved = 1 =>
                /\ epochs_run = EpochRange(0, config.epochs)
                /\ epoch = config.epochs
                /\ Len(reports) + Len(saved) = config.epochs
                /\ config.epochs > 0 => Last(epoch_log) = "reset"
                /\ pc \in {"end_session", "done"}
        /\ pc \in {"end_session", "done"} => weights_saved = 1
        /\ pc # "failed"
        /\ pc # "done" => ENABLED Next
        /\ \A i \in 1..Len(Rank) : Rank[i] >= 0
        /\ ~ENABLED (Next /\ ~LexLess(Rank', Rank))

C17_Witness ==
    /\ session_type = "training"
    /\ pc = "done"
    /\ weights_saved = 1
    /\ epochs_run = <<0, 1>>
    /\ nbatches.training >= 2
    /\ nbatches.validation >= 2

\* C19: in start(), a value derived from the data sources is set before it is
\* read: the steps_per_epoch of a "onecycle" schedule is the number of
\* training batches, not None, and in a training session both batch counts
\* are set once the progress logger is built.
C19_DataValuesSetBeforeUse ==
    /\ (config.onecycle /\ pc # "initialize_model") => steps_per_epoch >= 0
    /\ (session_type = "training"
            /\ pc \notin {"initialize_model", "load_data", "build_metrics"}) =>
            /\ num_training_batches >= 0
            /\ num_validation_batches >= 0
====
